---- MODULE Spec2Model ----
(***************************************************************************)
(* A model of the calendar wallpaper generator: the colour resolver        *)
(* (utils/shared_utils.py), the event projection, the text wrapper and the *)
(* calendar renderer (models/calendar_image_gen.py), with the              *)
(* configuration of config/config.py.                                      *)
(*                                                                         *)
(* Python strings are modelled as sequences of one-character strings, so   *)
(* that strip, split, slicing, formatting and parsing are computed and not *)
(* assumed.  A calendar date is the triple <<year, month, day>>.           *)
(***************************************************************************)
EXTENDS Integers, Sequences, FiniteSets, TLC

VARIABLES
    pc,               \* where the modelled call stands
    hex_code,         \* hex_to_rgb: its argument
    rgb,              \* hex_to_rgb: what it returned or raised
    db_rows,          \* read_events_db: the rows fetchall() returns
    events,           \* read_events_db: the mapping it returns
    text,             \* wrap_text: its text argument
    max_pixel_width,  \* wrap_text: its width budget
    font,             \* wrap_text: the font it measures with
    lines,            \* wrap_text: the list it returns
    cfg,              \* the Config object CalendarImageGen holds
    year,             \* draw_calendar: argument
    month,            \* draw_calendar: argument
    start_of_week,    \* draw_calendar: argument
    today,            \* draw_calendar: datetime.today().date()
    event_dict,       \* draw_calendar: the events argument
    firstweekday,     \* the calendar module's global first weekday
    month_grid,       \* draw_calendar: calendar.monthcalendar(year, month)
    cell_height,      \* draw_calendar: the height of one row of cells
    headers,          \* draw_weekday_headers: the labels drawn, left to right
    cells,            \* draw_day_boxes_and_events: what was drawn, cell by cell
    update_wallpaper, \* publish_calendar_image: argument
    publishes,        \* calls of publish_calendar_image so far
    db_fault,         \* read_events_db: where the database read fails, if it does
    save_calls,       \* calls of calendar_image.save in the current call
    file_written,     \* whether the current call has written WALLPAPER_FILE
    wallpaper_calls,  \* calls of set_wallpaper in the current call
    error,            \* the exception that left the current call, or "none"
    calls             \* draw_calendar calls running at the same time

vars == <<pc, hex_code, rgb, db_rows, events, text, max_pixel_width, font,
          lines, cfg, year, month, start_of_week, today, event_dict,
          firstweekday, month_grid, cell_height, headers, cells,
          update_wallpaper, publishes, db_fault, save_calls, file_written,
          wallpaper_calls, error, calls>>

drawVars == <<cfg, year, month, start_of_week, today, event_dict,
              firstweekday, month_grid, cell_height, headers, cells,
              update_wallpaper, publishes, db_fault, save_calls, file_written,
              wallpaper_calls, error, calls>>

\* ------------------------------------------------------------------------
\* Bounds of the model
\* ------------------------------------------------------------------------
MaxHexLen == 7      \* longest colour string tried
MaxRows == 3        \* most rows in the events table
MaxTextLen == 6     \* longest text handed to wrap_text on its own
MaxBudget == 5      \* largest width budget handed to wrap_text on its own
YearSpan == 2       \* years FirstYear .. FirstYear + YearSpan are rendered

\* ------------------------------------------------------------------------
\* Python string helpers
\* ------------------------------------------------------------------------
Digits == <<"0", "1", "2", "3", "4", "5", "6", "7", "8", "9">>

HexDigits == <<"0", "1", "2", "3", "4", "5", "6", "7", "8", "9",
               "a", "b", "c", "d", "e", "f">>

HexUpper == <<"0", "1", "2", "3", "4", "5", "6", "7", "8", "9",
              "A", "B", "C", "D", "E", "F">>

Range(s) == {s[i] : i \in 1..Len(s)}

IsDigit(c) == c \in Range(Digits)

IsHexDigit(c) == c \in Range(HexDigits) \cup Range(HexUpper)

IsSpace(c) == c = " "

DigitVal(c) == (CHOOSE i \in 1..10 : Digits[i] = c) - 1

HexVal(c) ==
    IF c \in Range(HexDigits)
    THEN (CHOOSE i \in 1..16 : HexDigits[i] = c) - 1
    ELSE (CHOOSE i \in 1..16 : HexUpper[i] = c) - 1

Min(a, b) == IF a <= b THEN a ELSE b

Max(a, b) == IF a >= b THEN a ELSE b

\* s[i:j] with 0-based Python indices, clamped to the string as Python does
Slice(s, i, j) == SubSeq(s, Min(i, Len(s)) + 1, Min(j, Len(s)))

RECURSIVE lstrip(_, _)
\* str.lstrip(chars): drops every leading character that is in chars
lstrip(s, chars) ==
    IF s # <<>> /\ Head(s) \in chars THEN lstrip(Tail(s), chars) ELSE s

RECURSIVE rstrip(_, _)
rstrip(s, chars) ==
    IF s # <<>> /\ s[Len(s)] \in chars
    THEN rstrip(SubSeq(s, 1, Len(s) - 1), chars)
    ELSE s

\* str.strip(): drops leading and trailing whitespace
strip(s) == rstrip(lstrip(s, {" "}), {" "})

RECURSIVE split(_)
\* str.split(): the maximal runs of non-whitespace characters, in order
split(s) ==
    LET t == lstrip(s, {" "})
    IN  IF t = <<>> THEN <<>>
        ELSE LET n == CHOOSE k \in 1..Len(t) :
                          /\ \A i \in 1..k : ~IsSpace(t[i])
                          /\ (k = Len(t) \/ IsSpace(t[k + 1]))
             IN  <<SubSeq(t, 1, n)>> \o split(SubSeq(t, n + 1, Len(t)))

RECURSIVE join(_, _)
\* sep.join(parts)
join(parts, sep) ==
    IF parts = <<>> THEN <<>>
    ELSE IF Len(parts) = 1 THEN parts[1]
    ELSE parts[1] \o sep \o join(Tail(parts), sep)

RECURSIVE str(_)
\* str(n) of a non-negative integer
str(n) == IF n < 10 THEN <<Digits[n + 1]>> ELSE str(n \div 10) \o <<Digits[(n % 10) + 1]>>

\* "%02d" % n, as strftime formats an hour or a minute
TwoDigits(n) == <<Digits[(n \div 10) + 1], Digits[(n % 10) + 1]>>

\* All sequences over S of length at most n
RECURSIVE SeqsUpTo(_, _)
SeqsUpTo(S, n) ==
    IF n = 0 THEN {<<>>}
    ELSE LET shorter == SeqsUpTo(S, n - 1)
         IN  shorter \cup {Append(s, c) : s \in {t \in shorter : Len(t) = n - 1}, c \in S}

\* ------------------------------------------------------------------------
\* utils/shared_utils.py
\* ------------------------------------------------------------------------
\* Python values are tagged with their type; an exception raised in place of
\* a value is tagged with the exception's name.
Str(s) == [kind |-> "str", v |-> s]

Tuple(t) == [kind |-> "tuple", v |-> t]

PyInt(n) == [kind |-> "int", v |-> n]

ValueError == [kind |-> "ValueError", v |-> <<>>]

None == [kind |-> "None", v |-> <<>>]

\* int(s, 16) for a slice s of at most two characters: surrounding
\* whitespace is ignored, one sign is allowed, and the rest must be one or
\* two hexadecimal digits (a "0x" prefix or an underscore needs three).
IntBase16(s) ==
    LET t == strip(s)
        signed == t # <<>> /\ Head(t) \in {"+", "-"}
        body == IF signed THEN Tail(t) ELSE t
        mag == IF Len(body) = 1 THEN HexVal(body[1])
               ELSE 16 * HexVal(body[1]) + HexVal(body[2])
    IN  IF body = <<>> \/ \E i \in 1..Len(body) : ~IsHexDigit(body[i])
        THEN ValueError
        ELSE PyInt(IF signed /\ Head(t) = "-" THEN 0 - mag ELSE mag)

\* hex_to_rgb without the lstrip("#") of line 15
hex_to_rgb_no_lstrip(hex) ==
    IF hex.kind = "tuple" THEN hex
    ELSE LET r == IntBase16(Slice(hex.v, 0, 2))
             g == IntBase16(Slice(hex.v, 2, 4))
             b == IntBase16(Slice(hex.v, 4, 6))
         IN  IF "ValueError" \in {r.kind, g.kind, b.kind} THEN ValueError
             ELSE Tuple(<<r.v, g.v, b.v>>)

\* hex_to_rgb without the isinstance check of line 13: a tuple has no
\* lstrip and the call raises
hex_to_rgb_strings_only(hex) ==
    IF hex.kind = "tuple" THEN ValueError
    ELSE LET stripped == lstrip(hex.v, {"#"})
             r == IntBase16(Slice(stripped, 0, 2))
             g == IntBase16(Slice(stripped, 2, 4))
             b == IntBase16(Slice(stripped, 4, 6))
         IN  IF "ValueError" \in {r.kind, g.kind, b.kind} THEN ValueError
             ELSE Tuple(<<r.v, g.v, b.v>>)

hex_to_rgb(hex) ==
    IF hex.kind = "tuple" THEN hex
    ELSE LET stripped == lstrip(hex.v, {"#"})
             r == IntBase16(Slice(stripped, 0, 2))
             g == IntBase16(Slice(stripped, 2, 4))
             b == IntBase16(Slice(stripped, 4, 6))
         IN  IF "ValueError" \in {r.kind, g.kind, b.kind} THEN ValueError
             ELSE Tuple(<<r.v, g.v, b.v>>)

\* ------------------------------------------------------------------------
\* Calendar arithmetic (datetime.date and the calendar module)
\* ------------------------------------------------------------------------
MINYEAR == 1
MAXYEAR == 9999
FirstYear == 2024

isleap(y) == y % 4 = 0 /\ (y % 100 # 0 \/ y % 400 = 0)

mdays == <<31, 28, 31, 30, 31, 30, 31, 31, 30, 31, 30, 31>>

DaysInMonth(y, m) == IF m = 2 /\ isleap(y) THEN 29 ELSE mdays[m]

\* The days before the first of each month in a common year
DaysBeforeMonthTable == <<0, 31, 59, 90, 120, 151, 181, 212, 243, 273, 304, 334>>

DaysBeforeMonth(y, m) == DaysBeforeMonthTable[m] + (IF m > 2 /\ isleap(y) THEN 1 ELSE 0)

DaysBeforeYear(y) ==
    LET p == y - 1 IN p * 365 + (p \div 4) - (p \div 100) + (p \div 400)

\* datetime(y, m, d) raises ValueError unless this holds
DateValid(y, m, d) ==
    /\ y \in MINYEAR..MAXYEAR
    /\ m \in 1..12
    /\ d \in 1..DaysInMonth(y, m)

\* date.toordinal(): 1 for 0001-01-01
toordinal(date) == DaysBeforeYear(date[1]) + DaysBeforeMonth(date[1], date[2]) + date[3]

\* calendar.weekday(y, m, d): 0 is Monday, 6 is Sunday.  A year outside
\* MINYEAR..MAXYEAR is replaced by 2000 + year mod 400, as calendar does.
weekday(y, m, d) ==
    LET yy == IF y \in MINYEAR..MAXYEAR THEN y ELSE 2000 + (y % 400)
    IN  (toordinal(<<yy, m, d>>) + 6) % 7

\* calendar.monthrange(y, m): weekday of the 1st and number of days
monthrange(y, m) == <<weekday(y, m, 1), DaysInMonth(y, m)>>

MONDAY == 0
SUNDAY == 6

day_abbr == <<"Mon", "Tue", "Wed", "Thu", "Fri", "Sat", "Sun">>

\* calendar.monthcalendar(y, m) under the module's current first weekday
\* fwd: the days of the month padded with 0 on both sides to whole weeks.
monthcalendar(fwd, y, m) ==
    LET day1 == monthrange(y, m)[1]
        ndays == monthrange(y, m)[2]
        days_before == (day1 - fwd) % 7
        days_after == (fwd - day1 - ndays) % 7
        n == days_before + ndays + days_after
        flat == [i \in 1..n |->
                    IF i <= days_before \/ i > days_before + ndays THEN 0
                    ELSE i - days_before]
    IN  [w \in 1..(n \div 7) |-> SubSeq(flat, 7 * (w - 1) + 1, 7 * w)]

\* ------------------------------------------------------------------------
\* CalendarImageGen.read_events_db
\* ------------------------------------------------------------------------
\* The alternatives the format directives compile to in _strptime
MatchY(s) == Len(s) = 4 /\ \A i \in 1..4 : IsDigit(s[i])

Match_m(s) ==
    \/ Len(s) = 2 /\ s[1] = "1" /\ s[2] \in {"0", "1", "2"}
    \/ Len(s) = 2 /\ s[1] = "0" /\ IsDigit(s[2]) /\ s[2] # "0"
    \/ Len(s) = 1 /\ IsDigit(s[1]) /\ s[1] # "0"

Match_d(s) ==
    \/ Len(s) = 2 /\ s[1] = "3" /\ s[2] \in {"0", "1"}
    \/ Len(s) = 2 /\ s[1] \in {"1", "2"} /\ IsDigit(s[2])
    \/ Len(s) = 2 /\ s[1] \in {"0", " "} /\ IsDigit(s[2]) /\ s[2] # "0"
    \/ Len(s) = 1 /\ IsDigit(s[1]) /\ s[1] # "0"

MatchH(s) ==
    \/ Len(s) = 2 /\ s[1] = "2" /\ s[2] \in {"0", "1", "2", "3"}
    \/ Len(s) = 2 /\ s[1] \in {"0", "1"} /\ IsDigit(s[2])
    \/ Len(s) = 1 /\ IsDigit(s[1])

MatchM(s) ==
    \/ Len(s) = 2 /\ s[1] \in {"0", "1", "2", "3", "4", "5"} /\ IsDigit(s[2])
    \/ Len(s) = 1 /\ IsDigit(s[1])

RECURSIVE int(_)
\* int(s) of a matched field: decimal digits, a padding blank ignored
int(s) ==
    IF s = <<>> THEN 0
    ELSE IF s[Len(s)] = " " THEN int(SubSeq(s, 1, Len(s) - 1))
    ELSE 10 * int(SubSeq(s, 1, Len(s) - 1)) + DigitVal(s[Len(s)])

\* datetime.strptime(s, "%Y-%m-%d %H:%M"): the whole of s must read as
\* year "-" month "-" day, one or more blanks, hour ":" minute, and the
\* date must exist; anything else raises ValueError.
strptime(s) ==
    LET n == Len(s)
        \* <<lm, ld, ws, lH, lM>>: the widths of month, day, blanks, hour, minute
        fits == {w \in (1..2) \X (1..2) \X (1..Max(n, 1)) \X (1..2) \X (1..2) :
                    LET m0 == 6
                        d0 == m0 + w[1] + 1
                        s0 == d0 + w[2]
                        H0 == s0 + w[3]
                        M0 == H0 + w[4] + 1
                    IN  /\ M0 + w[5] - 1 = n
                        /\ MatchY(SubSeq(s, 1, 4))
                        /\ s[5] = "-"
                        /\ Match_m(SubSeq(s, m0, m0 + w[1] - 1))
                        /\ s[d0 - 1] = "-"
                        /\ Match_d(SubSeq(s, d0, d0 + w[2] - 1))
                        /\ \A i \in s0..(H0 - 1) : IsSpace(s[i])
                        /\ MatchH(SubSeq(s, H0, H0 + w[4] - 1))
                        /\ s[M0 - 1] = ":"
                        /\ MatchM(SubSeq(s, M0, M0 + w[5] - 1))}
    IN  IF fits = {} THEN ValueError
        ELSE LET w == CHOOSE x \in fits : TRUE
                 m0 == 6
                 d0 == m0 + w[1] + 1
                 H0 == d0 + w[2] + w[3]
                 M0 == H0 + w[4] + 1
                 Y == int(SubSeq(s, 1, 4))
                 m == int(SubSeq(s, m0, m0 + w[1] - 1))
                 d == int(SubSeq(s, d0, d0 + w[2] - 1))
                 H == int(SubSeq(s, H0, H0 + w[4] - 1))
                 M == int(SubSeq(s, M0, M0 + w[5] - 1))
             IN  IF ~DateValid(Y, m, d) THEN ValueError
                 ELSE [kind |-> "datetime",
                       v |-> [date |-> <<Y, m, d>>, hour |-> H, minute |-> M]]

\* dt.strftime("%H:%M")
strftime_HM(dt) == TwoDigits(dt.hour) \o <<":">> \o TwoDigits(dt.minute)

\* events.setdefault(date, []).append(entry)
setdefault_append(evs, date, entry) ==
    [k \in (DOMAIN evs) \cup {date} |->
        IF k = date
        THEN (IF date \in DOMAIN evs THEN evs[date] ELSE <<>>) \o <<entry>>
        ELSE evs[k]]

\* event_entry without the rule for 00:00
event_entry_always_timed(dt, title) ==
    strftime_HM(dt) \o <<" ", "-", " ">> \o strip(title)

\* What one row appends: the bare title at 00:00, else "HH:MM - title"
event_entry(dt, title) ==
    IF strftime_HM(dt) = <<"0", "0", ":", "0", "0">>
    THEN strip(title)
    ELSE strftime_HM(dt) \o <<" ", "-", " ">> \o strip(title)

RECURSIVE read_rows_abort(_, _)
\* read_rows where a row that fails to parse ends the loop
read_rows_abort(rows, evs) ==
    IF rows = <<>> THEN evs
    ELSE LET dt == strptime(strip(rows[1][1]))
         IN  IF dt.kind = "ValueError" THEN evs
             ELSE read_rows_abort(Tail(rows),
                                  setdefault_append(evs, dt.v.date,
                                                    IF strftime_HM(dt.v) = <<"0", "0", ":", "0", "0">>
                                                    THEN strip(rows[1][2])
                                                    ELSE strftime_HM(dt.v) \o <<" ", "-", " ">>
                                                             \o strip(rows[1][2])))

RECURSIVE read_rows(_, _)
\* The loop over fetchall(): a row whose timestamp raises ValueError is
\* logged and skipped
read_rows(rows, evs) ==
    IF rows = <<>> THEN evs
    ELSE LET date_str == rows[1][1]
             title == rows[1][2]
             dt == strptime(strip(date_str))
         IN  IF dt.kind = "ValueError"
             THEN read_rows(Tail(rows), evs)
             ELSE read_rows(Tail(rows),
                            setdefault_append(evs, dt.v.date, event_entry(dt.v, title)))

read_events_db_abort(rows) == read_rows_abort(rows, <<>>)

read_events_db(rows) == read_rows(rows, <<>>)

\* events.setdefault(date, []) alone: the list under date, made if missing
setdefault(evs, date) ==
    [k \in (DOMAIN evs) \cup {date} |-> IF k \in DOMAIN evs THEN evs[k] ELSE <<>>]

\* The body of the try block of read_events_db when the read meets fault:
\*   at "connect" or "execute", sqlite3 raises before any row is fetched;
\*   at "row_date", the event_datetime of row fault.row is not text and
\*   line 44 raises an exception that is not a ValueError;
\*   at "row_title", the title of that row has no strip() and line 47 or 49
\*   raises, after setdefault has run; a row whose timestamp raises
\*   ValueError is skipped before its title is touched.
\* The result is the mapping at the end of the block and the exception
\* that ended it.
read_events_db_try(rows, fault) ==
    IF fault.at = "none" THEN [events |-> read_events_db(rows), exc |-> "none"]
    ELSE IF fault.at \in {"connect", "execute"}
    THEN [events |-> <<>>, exc |-> "sqlite3.Error"]
    ELSE LET before == read_events_db(SubSeq(rows, 1, fault.row - 1))
             dt == strptime(strip(rows[fault.row][1]))
         IN  IF fault.at = "row_date" THEN [events |-> before, exc |-> "TypeError"]
             ELSE IF dt.kind = "ValueError"
             THEN [events |-> read_rows(SubSeq(rows, fault.row + 1, Len(rows)), before),
                   exc |-> "none"]
             ELSE [events |-> setdefault(before, dt.v.date), exc |-> "AttributeError"]

\* The handler of read_events_db catching sqlite3.Error only
except_sqlite3_Error(exc) == IF exc = "sqlite3.Error" THEN "none" ELSE exc

\* "except Exception" (line 55): the exception that leaves read_events_db
\* when its try block ended with exc
except_Exception(exc) == "none"

\* ------------------------------------------------------------------------
\* CalendarImageGen.wrap_text
\* ------------------------------------------------------------------------
RECURSIVE TextWidth(_, _)
\* bbox[2] - bbox[0] of draw.textbbox((0, 0), s, font=f): the advances of
\* the characters of s in font f
TextWidth(f, s) ==
    IF s = <<>> THEN 0
    ELSE (IF IsSpace(Head(s)) THEN f.space ELSE f.glyph) + TextWidth(f, Tail(s))

RECURSIVE wrap_words_lossy(_, _, _, _, _)
\* wrap_words where a word that does not fit starts a new line only when a
\* line was flushed: a word too wide for an empty line is lost
wrap_words_lossy(words, out, current_line, budget, f) ==
    IF words = <<>>
    THEN IF current_line # <<>> THEN Append(out, current_line) ELSE out
    ELSE LET word == Head(words)
             test_line == strip(current_line \o <<" ">> \o word)
         IN  IF TextWidth(f, test_line) <= budget
             THEN wrap_words_lossy(Tail(words), out, test_line, budget, f)
             ELSE IF current_line # <<>>
             THEN wrap_words_lossy(Tail(words), Append(out, current_line), word, budget, f)
             ELSE wrap_words_lossy(Tail(words), out, current_line, budget, f)

RECURSIVE wrap_words(_, _, _, _, _)
wrap_words(words, out, current_line, budget, f) ==
    IF words = <<>>
    THEN IF current_line # <<>> THEN Append(out, current_line) ELSE out
    ELSE LET word == Head(words)
             test_line == strip(current_line \o <<" ">> \o word)
             line_width == TextWidth(f, test_line)
         IN  IF line_width <= budget
             THEN wrap_words(Tail(words), out, test_line, budget, f)
             ELSE wrap_words(Tail(words),
                             IF current_line # <<>> THEN Append(out, current_line) ELSE out,
                             word, budget, f)

RECURSIVE wrap_words_word_only(_, _, _, _, _)
\* wrap_words measuring the next word alone instead of the line it would
\* make: a word joins the line whenever the word itself fits
wrap_words_word_only(words, out, current_line, budget, f) ==
    IF words = <<>>
    THEN IF current_line # <<>> THEN Append(out, current_line) ELSE out
    ELSE LET word == Head(words)
             test_line == strip(current_line \o <<" ">> \o word)
         IN  IF TextWidth(f, word) <= budget
             THEN wrap_words_word_only(Tail(words), out, test_line, budget, f)
             ELSE wrap_words_word_only(Tail(words),
                                       IF current_line # <<>> THEN Append(out, current_line) ELSE out,
                                       word, budget, f)

wrap_text_word_only(txt, budget, f) == wrap_words_word_only(split(txt), <<>>, <<>>, budget, f)

wrap_text_lossy(txt, budget, f) == wrap_words_lossy(split(txt), <<>>, <<>>, budget, f)

wrap_text(txt, budget, f) == wrap_words(split(txt), <<>>, <<>>, budget, f)

\* ------------------------------------------------------------------------
\* The colour resolver on its own
\* ------------------------------------------------------------------------
ColorChars == {"#", "1", "a", "F", "g"}

\* The colour strings and triples hex_to_rgb is called with: every string
\* over ColorChars of length at most n, the string "#010203" and the triple
\* (1, 2, 3)
ColorInputs(n) ==
    {Str(s) : s \in SeqsUpTo(ColorChars, n)}
        \cup {Str(<<"#", "0", "1", "0", "2", "0", "3">>), Tuple(<<1, 2, 3>>)}

\* No read of the database fails
NoFault == [at |-> "none", row |-> 0]

IdlePublish ==
    /\ update_wallpaper = FALSE
    /\ publishes = 0
    /\ db_fault = NoFault
    /\ save_calls = 0
    /\ file_written = FALSE
    /\ wallpaper_calls = 0
    /\ error = "none"

IdleDraw ==
    /\ cfg = None
    /\ year = 0
    /\ month = 0
    /\ start_of_week = 0
    /\ today = <<>>
    /\ event_dict = <<>>
    /\ firstweekday = 0
    /\ month_grid = <<>>
    /\ cell_height = 0
    /\ headers = <<>>
    /\ cells = <<>>
    /\ IdlePublish
    /\ calls = <<>>

IdleColor == hex_code = None /\ rgb = None

IdleEvents == db_rows = <<>> /\ events = <<>>

IdleWrap == text = <<>> /\ max_pixel_width = 0 /\ font = None /\ lines = <<>>

InitColor ==
    /\ pc = "call_hex_to_rgb"
    /\ hex_code \in ColorInputs(MaxHexLen)
    /\ rgb = None
    /\ IdleEvents
    /\ IdleWrap
    /\ IdleDraw

Call_hex_to_rgb ==
    /\ pc = "call_hex_to_rgb"
    /\ rgb' = hex_to_rgb(hex_code)
    /\ pc' = IF rgb'.kind = "ValueError" THEN "raised" ELSE "returned"
    /\ UNCHANGED <<hex_code, db_rows, events, text, max_pixel_width, font, lines>>
    /\ UNCHANGED drawVars

SpecColor == InitColor /\ [][Call_hex_to_rgb]_vars

\* ------------------------------------------------------------------------
\* The event projection on its own
\* ------------------------------------------------------------------------
StampMidnight == <<"2", "0", "2", "5", "-", "0", "3", "-", "1", "0", " ", "0", "0", ":", "0", "0">>

StampMorning == <<"2", "0", "2", "5", "-", "0", "3", "-", "1", "0", " ", "0", "9", ":", "3", "0">>

StampSlashes == <<"2", "0", "2", "5", "/", "0", "3", "/", "1", "0">>

StampPadded == <<" ", "2", "0", "2", "5", "-", "0", "2", "-", "2", "8", " ", "7", ":", "0", "5", " ">>

StampNoSuchDay == <<"2", "0", "2", "5", "-", "0", "2", "-", "3", "0", " ", "0", "8", ":", "0", "0">>

TitleBirthday == <<"B", "i", "r", "t", "h", "d", "a", "y">>

TitleStandup == <<" ", "S", "t", "a", "n", "d", "u", "p", " ">>

TitleX == <<"X">>

\* The rows of the events table: (event_datetime, title), both TEXT NOT NULL
Rows ==
    {<<StampMidnight, TitleBirthday>>, <<StampMorning, TitleStandup>>,
     <<StampSlashes, TitleX>>, <<StampPadded, TitleStandup>>,
     <<StampNoSuchDay, TitleBirthday>>, <<StampMidnight, TitleStandup>>,
     <<StampPadded, TitleBirthday>>}

InitEvents ==
    /\ pc = "call_read_events_db"
    /\ db_rows \in SeqsUpTo(Rows, MaxRows)
    /\ events = <<>>
    /\ IdleColor
    /\ IdleWrap
    /\ IdleDraw

Call_read_events_db ==
    /\ pc = "call_read_events_db"
    /\ events' = read_events_db(db_rows)
    /\ pc' = "returned"
    /\ UNCHANGED <<hex_code, rgb, db_rows, text, max_pixel_width, font, lines>>
    /\ UNCHANGED drawVars

SpecEvents == InitEvents /\ [][Call_read_events_db]_vars

\* ------------------------------------------------------------------------
\* The text wrapper on its own
\* ------------------------------------------------------------------------
TextChars == {"a", "b", " "}

\* A font is known by the advance of a glyph and of a blank
Fonts == {[glyph |-> 1, space |-> 1], [glyph |-> 2, space |-> 1]}

InitWrap ==
    /\ pc = "call_wrap_text"
    /\ text \in SeqsUpTo(TextChars, MaxTextLen)
    /\ max_pixel_width \in 0..MaxBudget
    /\ font \in Fonts
    /\ lines = <<>>
    /\ IdleColor
    /\ IdleEvents
    /\ IdleDraw

Call_wrap_text ==
    /\ pc = "call_wrap_text"
    /\ lines' = wrap_text(text, max_pixel_width, font)
    /\ pc' = "returned"
    /\ UNCHANGED <<hex_code, rgb, db_rows, events, text, max_pixel_width, font>>
    /\ UNCHANGED drawVars

SpecWrap == InitWrap /\ [][Call_wrap_text]_vars

\* ------------------------------------------------------------------------
\* config/config.py and CalendarImageGen.__init__
\* ------------------------------------------------------------------------
\* The class attributes of BaseConfig that the renderer reads
BaseConfig ==
    [IMG_WIDTH |-> 1920,
     IMG_HEIGHT |-> 1080,
     MARGIN_TOP |-> 50,
     MARGIN_BOTTOM |-> 450,
     MARGIN_LEFT |-> 500,
     MARGIN_RIGHT |-> 500,
     CALENDAR_MIN_NUM_ROWS |-> 6,
     BACKGROUND_COLOR |-> Str(<<"#", "0", "0", "0", "0", "0", "0">>),
     GRID_COLOR |-> Str(<<"#", "1", "4", "1", "4", "1", "4">>),
     TEXT_COLOR |-> Str(<<"#", "F", "F", "F", "F", "F", "F">>),
     EVENT_COLOR |-> Str(<<"#", "6", "4", "6", "4", "6", "4">>),
     TODAY_CELL_BG_COLOR |-> Str(<<"#", "0", "F", "0", "F", "0", "F">>),
     TODAY_EVENT_COLOR |-> Str(<<"#", "E", "0", "E", "0", "E", "0">>),
     EVENT_FONT_SIZE |-> 11]

\* The colour attributes in the order __init__ assigns them
ColorFields == <<"BACKGROUND_COLOR", "TEXT_COLOR", "EVENT_COLOR", "GRID_COLOR",
                 "TODAY_CELL_BG_COLOR", "TODAY_EVENT_COLOR">>

RECURSIVE resolve_colors(_, _)
\* The assignments of __init__ from the i-th on: each replaces a colour of
\* the shared config by hex_to_rgb of it; the first that raises ends them.
resolve_colors(config, i) ==
    IF i > Len(ColorFields) THEN [cfg |-> config, raised |-> FALSE]
    ELSE LET c == hex_to_rgb(config[ColorFields[i]])
         IN  IF c.kind = "ValueError" THEN [cfg |-> config, raised |-> TRUE]
             ELSE resolve_colors([config EXCEPT ![ColorFields[i]] = c], i + 1)

\* ------------------------------------------------------------------------
\* CalendarImageGen.draw_calendar and what it calls
\* ------------------------------------------------------------------------
\* draw_calendar without its setfirstweekday call: the module default stays
setfirstweekday_skipped(sow) == MONDAY

\* calendar.setfirstweekday(start_of_week): the module's new first weekday
setfirstweekday(sow) == sow

draw_weekday_headers(sow) ==
    [i \in 1..7 |->
        LET day_index == (sow + (i - 1)) % 7
        IN  [day_index |-> day_index, name |-> day_abbr[day_index + 1]]]

prev_month(m) == IF m > 1 THEN m - 1 ELSE 12

\* prev_year without the step back from January to the year before
prev_year_same(y, m) == y

prev_year(y, m) == IF m > 1 THEN y ELSE y - 1

next_month(m) == IF m < 12 THEN m + 1 ELSE 1

next_year(y, m) == IF m < 12 THEN y ELSE y + 1

\* sum(1 for d in days if d == 0)
CountZeros(days) == Cardinality({i \in 1..Len(days) : days[i] = 0})

leading_zeros(week_idx, week_days) == IF week_idx = 0 THEN CountZeros(week_days) ELSE 0

\* cell_date_args giving a date to the days of the displayed month only
cell_date_args_current_only(y, m, month_calendar, week_idx, day_idx) ==
    LET day_of_month == month_calendar[week_idx + 1][day_idx + 1]
    IN  IF day_of_month # 0 THEN <<y, m, day_of_month>> ELSE <<>>

\* The arguments of the datetime(...) call that gives a cell its date, or
\* <<>> for a cell the code leaves without a date
cell_date_args(y, m, month_calendar, week_idx, day_idx) ==
    LET week_days == month_calendar[week_idx + 1]
        day_of_month == week_days[day_idx + 1]
        prev_month_days == monthrange(prev_year(y, m), prev_month(m))[2]
        pos == CountZeros(SubSeq(week_days, 1, day_idx))
    IN  IF day_of_month # 0 THEN <<y, m, day_of_month>>
        ELSE IF week_idx = 0
        THEN <<prev_year(y, m), prev_month(m),
               prev_month_days - leading_zeros(week_idx, week_days) + 1 + pos>>
        ELSE IF week_idx = Len(month_calendar) - 1
        THEN <<next_year(y, m), next_month(m), pos + 1>>
        ELSE <<>>

\* is_current_day set for any cell whose date is today
is_current_day_any(day_of_month, date, tdy) == date = tdy

\* is_current_day: set only in the branch of a day of the displayed month
is_current_day(day_of_month, date, tdy) == day_of_month # 0 /\ date = tdy

\* scale_color that leaves the colour as it is
scale_color_unscaled(color, num) == color

\* tuple(max(0, int(c * num / 10)) for c in color)
scale_color(color, num) ==
    Tuple([i \in 1..Len(color.v) |-> Max(0, (color.v[i] * num) \div 10)])

EVENT_LINE_STEP == 12
EVENT_TOP_OFFSET == 25
HEADER_BAND == 100

RECURSIVE draw_events(_, _, _, _, _, _, _, _)
\* The loop over the events of one cell: every wrapped line of an event is
\* drawn, 12 pixels apart, and only after a whole event is the position
\* compared with the bottom of the cell.
draw_events(evs, k, y, out, cell_bottom, budget, f, fill_color) ==
    IF k > Len(evs) THEN [drawn |-> out, n_events |-> Len(evs), overflow |-> FALSE]
    ELSE LET wrapped_event == wrap_text(evs[k], budget, f)
             drawn == [j \in 1..Len(wrapped_event) |->
                          [event |-> k,
                           line |-> wrapped_event[j],
                           y |-> y + EVENT_LINE_STEP * (j - 1),
                           fill |-> fill_color]]
             event_y_position == y + EVENT_LINE_STEP * Len(wrapped_event)
         IN  IF event_y_position > cell_bottom
             THEN [drawn |-> out \o drawn, n_events |-> k, overflow |-> TRUE]
             ELSE draw_events(evs, k + 1, event_y_position, out \o drawn,
                              cell_bottom, budget, f, fill_color)

\* One pass of the inner loop of draw_day_boxes_and_events
draw_cell(config, y, m, month_calendar, evd, max_event_width, height, f, tdy, week_idx, day_idx) ==
    LET day_of_month == month_calendar[week_idx + 1][day_idx + 1]
        cell_top == config.MARGIN_TOP + HEADER_BAND + week_idx * height
        cell_bottom == cell_top + height
        in_current_month == day_of_month # 0
        args == cell_date_args(y, m, month_calendar, week_idx, day_idx)
        raises == args # <<>> /\ ~DateValid(args[1], args[2], args[3])
        actual_date_for_events == args
        display_day_str == IF args = <<>> THEN <<>> ELSE str(args[3])
        current_day == is_current_day(day_of_month, actual_date_for_events, tdy)
        has_events == actual_date_for_events # <<>>
                      /\ actual_date_for_events \in DOMAIN evd
        base_color == IF actual_date_for_events = tdy
                      THEN config.TODAY_EVENT_COLOR ELSE config.EVENT_COLOR
        fill_color == IF ~in_current_month /\ actual_date_for_events # tdy
                      THEN scale_color(base_color, 6) ELSE base_color
        evs == IF has_events
               THEN draw_events(evd[actual_date_for_events], 1,
                                cell_top + EVENT_TOP_OFFSET, <<>>, cell_bottom,
                                max_event_width, f, fill_color)
               ELSE [drawn |-> <<>>, n_events |-> 0, overflow |-> FALSE]
    IN  [week_idx |-> week_idx,
         day_idx |-> day_idx,
         cell_top |-> cell_top,
         cell_bottom |-> cell_bottom,
         raises |-> raises,
         in_current_month |-> in_current_month,
         date |-> actual_date_for_events,
         display_day_str |-> display_day_str,
         fill |-> IF current_day THEN config.TODAY_CELL_BG_COLOR ELSE None,
         outline |-> config.GRID_COLOR,
         day_text_color |-> IF display_day_str = <<>> THEN None
                            ELSE IF in_current_month THEN config.TEXT_COLOR
                            ELSE scale_color(config.TEXT_COLOR, 5),
         drawn |-> evs.drawn,
         n_events |-> evs.n_events,
         overflow |-> evs.overflow]

\* The cells in drawing order, week by week; a datetime(...) that raises
\* ends the drawing, the cells before it having been drawn.
draw_day_boxes_and_events(config, y, m, month_calendar, evd, max_event_width, height, f, tdy) ==
    LET n == 7 * Len(month_calendar)
        all == SubSeq([i \in 1..n |->
                          draw_cell(config, y, m, month_calendar, evd, max_event_width,
                                    height, f, tdy, (i - 1) \div 7, (i - 1) % 7)],
                      1, n)
        bad == {i \in 1..n : all[i].raises}
        stop == IF bad = {} THEN n ELSE (CHOOSE i \in bad : \A j \in bad : i <= j) - 1
    IN  [cells |-> SubSeq(all, 1, stop), raised |-> bad # {}]

\* ------------------------------------------------------------------------
\* The inputs of a render
\* ------------------------------------------------------------------------
NextDay(d) ==
    IF d[3] < DaysInMonth(d[1], d[2]) THEN <<d[1], d[2], d[3] + 1>>
    ELSE IF d[2] < 12 THEN <<d[1], d[2] + 1, 1>>
    ELSE <<d[1] + 1, 1, 1>>

PrevDay(d) ==
    IF d[3] > 1 THEN <<d[1], d[2], d[3] - 1>>
    ELSE IF d[2] > 1 THEN <<d[1], d[2] - 1, DaysInMonth(d[1], d[2] - 1)>>
    ELSE <<d[1] - 1, 12, 31>>

\* The font the event lines are measured with: Roboto at EVENT_FONT_SIZE,
\* taken as 6 pixels a glyph and 3 a blank
EventFont == [glyph |-> 6, space |-> 3]

ShortEvent == <<"B", "i", "r", "t", "h", "d", "a", "y">>

TimedEvent == <<"0", "9", ":", "3", "0", " ", "-", " ", "S", "t", "a", "n", "d", "u", "p">>

\* Eight words of ten letters: no two fit one line of a cell
LongEvent == join([i \in 1..8 |-> [j \in 1..10 |-> "w"]], <<" ">>)

EventLists == {<<ShortEvent>>, <<LongEvent>>, [i \in 1..9 |-> ShortEvent]}

\* The days around month m of year y that events and today are tried on:
\* the day before the 1st, the 1st, the last day and the day after it
DaysAround(y, m) ==
    LET first == <<y, m, 1>>
        last == <<y, m, DaysInMonth(y, m)>>
    IN  {PrevDay(first), first, last, NextDay(last)}

EventDicts(y, m) ==
    LET first == <<y, m, 1>>
    IN  {<<>>}
        \cup {[d \in {day} |-> evs] : day \in DaysAround(y, m), evs \in EventLists}
        \cup {[d \in {PrevDay(first), first} |->
                  IF d = first THEN <<TimedEvent>> ELSE <<ShortEvent>>]}

\* today: one of the days around the month, a day in its middle, or a day
\* that is not in the grid at all (the same day a year earlier)
Todays(y, m) == DaysAround(y, m) \cup {<<y, m, 15>>, <<y - 1, m, 15>>}

Years == FirstYear..(FirstYear + YearSpan)

\* ------------------------------------------------------------------------
\* A render: CalendarImageGen(Config), then draw_calendar
\* ------------------------------------------------------------------------
Init ==
    /\ pc = "new"
    /\ cfg = BaseConfig
    /\ year = 0
    /\ month = 0
    /\ start_of_week = 0
    /\ today = <<>>
    /\ event_dict = <<>>
    /\ firstweekday = MONDAY
    /\ month_grid = <<>>
    /\ cell_height = 0
    /\ headers = <<>>
    /\ cells = <<>>
    /\ IdlePublish
    /\ calls = <<>>
    /\ IdleColor
    /\ IdleEvents
    /\ IdleWrap

\* CalendarImageGen.__init__
Construct ==
    /\ pc = "new"
    /\ LET r == resolve_colors(cfg, 1)
       IN  /\ cfg' = r.cfg
           /\ pc' = IF r.raised THEN "raised" ELSE "constructed"
           /\ error' = IF r.raised THEN "ValueError" ELSE "none"
    /\ UNCHANGED <<hex_code, rgb, db_rows, events, text, max_pixel_width, font, lines>>
    /\ UNCHANGED <<year, month, start_of_week, today, event_dict, firstweekday,
                   month_grid, cell_height, headers, cells>>
    /\ UNCHANGED <<update_wallpaper, publishes, db_fault, save_calls, file_written,
                   wallpaper_calls, calls>>

\* calendar_image.save(WALLPAPER_FILE) where the file cannot be written,
\* with the failure kept inside draw_calendar
save_swallowed(writable) == "none"

\* calendar_image.save(WALLPAPER_FILE): the exception it leaves draw_calendar
\* with; nothing around the call catches it
save(writable) == IF writable THEN "none" ELSE "OSError"

\* CalendarImageGen.draw_calendar(year, month, events, start_of_week), called
\* on a constructed object.  strict: the Pillow build checks the coordinates
\* of a rectangle; writable: WALLPAPER_FILE can be written.
draw_calendar(y, m, evd, sow, tdy, strict, writable) ==
    /\ year' = y
    /\ month' = m
    /\ event_dict' = evd
    /\ start_of_week' = sow
    /\ today' = tdy
    /\ firstweekday' = setfirstweekday(sow)
    /\ month_grid' = monthcalendar(firstweekday', y, m)
    /\ font' = EventFont
    /\ LET \* cell_width = (IMG_WIDTH - MARGIN_LEFT - MARGIN_RIGHT) / 7 is a
           \* float; seven times it is this integer
           cell_width7 == cfg.IMG_WIDTH - cfg.MARGIN_LEFT - cfg.MARGIN_RIGHT
           \* max_event_width = cell_width - 20, rounded down: a line's
           \* width is a whole number of pixels, so w <= max_event_width
           \* exactly when w is at most this
           max_event_width == (cell_width7 - 7 * 20) \div 7
           \* the division is exact for the configs tried and 4, 5 or 6 weeks
           height == (cfg.IMG_HEIGHT - cfg.MARGIN_TOP - cfg.MARGIN_BOTTOM - HEADER_BAND)
                         \div Len(month_grid')
           r == draw_day_boxes_and_events(cfg, y, m, month_grid', evd,
                                          max_event_width, height, font', tdy)
           \* a cell whose right edge is left of its left edge, or whose
           \* bottom is above its top
           inverted == cell_width7 < 0 \/ height < 0
           \* draw.rectangle of an inverted box raises ValueError in the
           \* Pillow builds that check its coordinates and draws in the others
           rect_raises == strict /\ inverted
           \* every cell of the grid was drawn: no datetime(...) and no
           \* draw.rectangle raised
           painted == Len(cells') = 7 * Len(month_grid')
           exc == IF painted THEN save(writable) ELSE "ValueError"
       IN  /\ cell_height' = height
           /\ headers' = draw_weekday_headers(sow)
           \* draw.rectangle of an inverted box raises ValueError in the
           \* Pillow builds that check its coordinates and draws in the others
           /\ cells' = IF rect_raises THEN <<>> ELSE r.cells
           /\ save_calls' = IF painted THEN save_calls + 1 ELSE save_calls
           /\ file_written' = (painted /\ writable)
           /\ error' = exc
           /\ pc' = IF exc = "none" THEN "saved" ELSE "raised"
    /\ UNCHANGED <<hex_code, rgb, db_rows, events, text, max_pixel_width, lines, cfg>>
    /\ UNCHANGED <<update_wallpaper, publishes, db_fault, wallpaper_calls, calls>>

\* draw_calendar with every month, week start, event mapping and today, the
\* output path being writable
DrawCalendar ==
    /\ pc = "constructed"
    /\ \E y \in Years, m \in 1..12, sow \in {SUNDAY, MONDAY} :
           \E evd \in EventDicts(y, m), tdy \in Todays(y, m) :
               draw_calendar(y, m, evd, sow, tdy, TRUE, TRUE)

Next == Construct \/ DrawCalendar

Spec == Init /\ [][Next]_vars

\* ------------------------------------------------------------------------
\* Properties of the render
\* ------------------------------------------------------------------------
Saved == pc = "saved"

FirstOfMonth == <<year, month, 1>>

DrawableHeight == cfg.IMG_HEIGHT - cfg.MARGIN_TOP - cfg.MARGIN_BOTTOM - HEADER_BAND

\* C1: the grid that draw_calendar lays out has at least CALENDAR_MIN_NUM_ROWS
\* rows of exactly 7 cells, and the cell height is the drawable height divided
\* by max(generated row count, configured minimum).
C1_GridHasMinimumRows ==
    Saved =>
        /\ Len(month_grid) >= cfg.CALENDAR_MIN_NUM_ROWS
        /\ \A w \in 1..Len(month_grid) : Len(month_grid[w]) = 7
        /\ Len(cells) = 7 * Len(month_grid)
        /\ cell_height = DrawableHeight \div Max(Len(month_grid), cfg.CALENDAR_MIN_NUM_ROWS)

\* C2: read row by row, the dates given to the grid cells are all real
\* calendar dates (no cell is left without a date), each is the day after
\* the date of the cell before it, and every date of the target month is
\* the date of exactly one cell.
C2_CellDatesConsecutive ==
    Saved =>
        /\ Len(cells) = 7 * Len(month_grid)
        /\ \A i \in 1..Len(cells) :
              /\ cells[i].date # <<>>
              /\ DateValid(cells[i].date[1], cells[i].date[2], cells[i].date[3])
              /\ cells[i].display_day_str = str(cells[i].date[3])
        /\ \A i \in 1..(Len(cells) - 1) :
              /\ cells[i + 1].date = NextDay(cells[i].date)
              /\ toordinal(cells[i + 1].date) = toordinal(cells[i].date) + 1
        /\ \A d \in 1..DaysInMonth(year, month) :
              Cardinality({i \in 1..Len(cells) : cells[i].date = <<year, month, d>>}) = 1

\* C2 witness: January 2025 with weeks starting on Sunday reaches back to
\* 29 December 2024 and on to 1 February 2025.
C2_Witness ==
    /\ Saved
    /\ year = 2025 /\ month = 1 /\ start_of_week = SUNDAY
    /\ cells[1].date = <<2024, 12, 29>>
    /\ cells[Len(cells)].date = <<2025, 2, 1>>

\* C3: no event line is drawn at a position past the bottom edge of its
\* cell (a line whose top is below cell_bottom lies outside the cell
\* whatever the height of the font).
C3_NoLinePastCellBottom ==
    Saved =>
        \A i \in 1..Len(cells) :
            \A j \in 1..Len(cells[i].drawn) :
                cells[i].drawn[j].y <= cells[i].cell_bottom

\* C5 as claimed: a cell is filled with TODAY_CELL_BG_COLOR exactly when its
\* date is today, be it a day of the target month or of an adjacent month;
\* every other cell gets only the border.
C5_TodayAlwaysHighlighted ==
    Saved =>
        \A i \in 1..Len(cells) :
            /\ cells[i].outline = cfg.GRID_COLOR
            /\ cells[i].fill = IF cells[i].date = today
                               THEN cfg.TODAY_CELL_BG_COLOR ELSE None

\* C5 as amended: a cell is filled with TODAY_CELL_BG_COLOR exactly when it
\* is a day of the target month and its date is today; every other cell,
\* an adjacent-month cell dated today included, gets only the border.
C5_TodayHighlightedInMonth ==
    Saved =>
        \A i \in 1..Len(cells) :
            /\ cells[i].outline = cfg.GRID_COLOR
            /\ cells[i].fill = IF cells[i].in_current_month /\ cells[i].date = today
                               THEN cfg.TODAY_CELL_BG_COLOR ELSE None

\* C5 witness: today is a day of the target month, and its cell is filled
\* with the resolved highlight colour.
C5_Witness ==
    /\ Saved
    /\ \E i \in 1..Len(cells) :
          /\ cells[i].in_current_month
          /\ cells[i].date = today
          /\ cells[i].fill = Tuple(<<15, 15, 15>>)

\* The events stored under the date of a cell
EventsOf(cell) ==
    IF cell.date # <<>> /\ cell.date \in DOMAIN event_dict
    THEN event_dict[cell.date] ELSE <<>>

\* The lines drawn in a cell for its k-th event, top to bottom
LinesOfEvent(cell, k) ==
    LET own == SelectSeq(cell.drawn, LAMBDA l : l.event = k)
    IN  [j \in 1..Len(own) |-> own[j].line]

\* What is drawn in a cell is a leading part of the events stored under
\* exactly that cell's date, the first of them always included
DrawnUnderCellDate(cell) ==
    /\ cell.n_events <= Len(EventsOf(cell))
    /\ EventsOf(cell) # <<>> => cell.n_events >= 1
    /\ \A j \in 1..Len(cell.drawn) : cell.drawn[j].event \in 1..cell.n_events
    /\ \A k \in 1..cell.n_events :
          join(LinesOfEvent(cell, k), <<" ">>) = join(split(EventsOf(cell)[k]), <<" ">>)

\* The leading adjacent-month cell dated the day before the 1st, with the
\* first event of that day drawn in it
DayBeforeDrawnInLeadingCell ==
    \E i \in 1..Len(cells) :
        /\ cells[i].week_idx = 0
        /\ ~cells[i].in_current_month
        /\ cells[i].date = PrevDay(FirstOfMonth)
        /\ cells[i].n_events >= 1
        /\ LinesOfEvent(cells[i], 1) # <<>>

\* C8 as claimed: the events drawn in a cell are those stored under that
\* cell's date, and for every year, month and start_of_week an event dated
\* the day before the 1st is drawn in the leading adjacent-month cell.
C8_DayBeforeAlwaysDrawn ==
    Saved =>
        /\ \A i \in 1..Len(cells) : DrawnUnderCellDate(cells[i])
        /\ PrevDay(FirstOfMonth) \in DOMAIN event_dict => DayBeforeDrawnInLeadingCell

\* C8 as amended: the events drawn in a cell are a leading part of those
\* stored under that cell's date; an event dated the day before the 1st is
\* drawn in the leading adjacent-month cell when the 1st does not fall on
\* start_of_week, and in no cell when it does (the grid then starts on the
\* 1st).
C8_EventsUnderCellDate ==
    Saved =>
        /\ \A i \in 1..Len(cells) : DrawnUnderCellDate(cells[i])
        /\ PrevDay(FirstOfMonth) \in DOMAIN event_dict =>
              IF weekday(year, month, 1) # start_of_week
              THEN DayBeforeDrawnInLeadingCell
              ELSE \A i \in 1..Len(cells) : cells[i].date # PrevDay(FirstOfMonth)

\* C8 witness: March 2025 with weeks starting on Sunday and an event on
\* 28 February: it is drawn in the sixth cell of the first row.
C8_Witness ==
    /\ Saved
    /\ year = 2025 /\ month = 3 /\ start_of_week = SUNDAY
    /\ <<2025, 2, 28>> \in DOMAIN event_dict
    /\ cells[6].date = <<2025, 2, 28>>
    /\ ~cells[6].in_current_month
    /\ cells[6].n_events >= 1
    /\ cells[6].drawn # <<>>

\* C9: the first cell is the latest date on or before the 1st whose weekday
\* is start_of_week (the 1st itself when it falls on start_of_week), and
\* every date in column i has the weekday of the i-th header label, which
\* is weekday (start_of_week + i) mod 7.
C9_ColumnsMatchHeaders ==
    Saved =>
        /\ weekday(cells[1].date[1], cells[1].date[2], cells[1].date[3]) = start_of_week
        /\ toordinal(cells[1].date) <= toordinal(FirstOfMonth)
        /\ toordinal(FirstOfMonth) - toordinal(cells[1].date) < 7
        /\ weekday(year, month, 1) = start_of_week => cells[1].date = FirstOfMonth
        /\ Len(headers) = 7
        /\ \A i \in 1..7 :
              /\ headers[i].day_index = (start_of_week + (i - 1)) % 7
              /\ headers[i].name = day_abbr[headers[i].day_index + 1]
        /\ \A i \in 1..Len(cells) :
              weekday(cells[i].date[1], cells[i].date[2], cells[i].date[3])
                  = headers[cells[i].day_idx + 1].day_index

\* C9 witness: March 2025 with weeks starting on Sunday: the header row
\* starts with Sun and the grid with Sunday 23 February 2025.
C9_Witness ==
    /\ Saved
    /\ year = 2025 /\ month = 3 /\ start_of_week = SUNDAY
    /\ headers[1].name = "Sun"
    /\ cells[1].date = <<2025, 2, 23>>
    /\ cells[42].date = <<2025, 4, 5>>

\* Each channel of c is the channel of color times tenths / 10, rounded
\* down, and is a byte
ScaledTo(c, color, tenths) ==
    /\ c.kind = "tuple"
    /\ Len(c.v) = 3
    /\ \A i \in 1..3 :
          /\ c.v[i] \in 0..255
          /\ 10 * c.v[i] <= tenths * color.v[i]
          /\ tenths * color.v[i] < 10 * (c.v[i] + 1)

\* C17: event lines are drawn in TODAY_EVENT_COLOR exactly in the cell dated
\* today, in EVENT_COLOR in the other cells of the month and in EVENT_COLOR
\* at 60% in the other cells of the adjacent months; the day number is drawn
\* in TEXT_COLOR in the cells of the month and in TEXT_COLOR at 50% in the
\* cells of the adjacent months; every scaled channel is in 0..255.
C17_ColorsByCellKind ==
    Saved =>
        \A i \in 1..Len(cells) :
            LET cell == cells[i]
                is_today == cell.date = today
            IN  /\ \A j \in 1..Len(cell.drawn) :
                      LET fill == cell.drawn[j].fill
                      IN  /\ (fill = cfg.TODAY_EVENT_COLOR) <=> is_today
                          /\ (~is_today /\ cell.in_current_month) => fill = cfg.EVENT_COLOR
                          /\ (~is_today /\ ~cell.in_current_month) =>
                                 /\ ScaledTo(fill, cfg.EVENT_COLOR, 6)
                                 /\ fill = Tuple(<<60, 60, 60>>)
                /\ cell.display_day_str # <<>> =>
                      /\ cell.in_current_month => cell.day_text_color = cfg.TEXT_COLOR
                      /\ ~cell.in_current_month =>
                             /\ ScaledTo(cell.day_text_color, cfg.TEXT_COLOR, 5)
                             /\ cell.day_text_color = Tuple(<<127, 127, 127>>)

\* C17 witness: today is the 1st and has an event, and so has the day
\* before it in a leading cell: that one is drawn dimmed, today's is not.
C17_Witness ==
    /\ Saved
    /\ today = FirstOfMonth
    /\ \E i \in 1..Len(cells), j \in 1..Len(cells) :
          /\ ~cells[i].in_current_month
          /\ cells[i].drawn # <<>>
          /\ cells[i].drawn[1].fill = Tuple(<<60, 60, 60>>)
          /\ cells[i].day_text_color = Tuple(<<127, 127, 127>>)
          /\ cells[j].date = today
          /\ cells[j].drawn # <<>>
          /\ cells[j].drawn[1].fill = cfg.TODAY_EVENT_COLOR

\* An adjacent-month cell dated today: its events in TODAY_EVENT_COLOR at
\* full strength, its day number dimmed
C17_TodayInAdjacentMonth ==
    /\ Saved
    /\ \E i \in 1..Len(cells) :
          /\ ~cells[i].in_current_month
          /\ cells[i].date = today
          /\ cells[i].drawn # <<>>
          /\ cells[i].drawn[1].fill = Tuple(<<224, 224, 224>>)
          /\ cells[i].day_text_color = Tuple(<<127, 127, 127>>)

\* ------------------------------------------------------------------------
\* Properties of the colour resolver
\* ------------------------------------------------------------------------
StripOneHash(s) == IF s # <<>> /\ Head(s) = "#" THEN Tail(s) ELSE s

SixHexDigits(s) == Len(s) = 6 /\ \A i \in 1..6 : IsHexDigit(s[i])

\* C4: hex_to_rgb fails for every string that, after one optional leading
\* '#' is stripped, is not exactly 6 hexadecimal digits; it never returns a
\* triple for such a string.
C4_MalformedColorRejected ==
    (pc # "call_hex_to_rgb" /\ hex_code.kind = "str"
         /\ ~SixHexDigits(StripOneHash(hex_code.v)))
        => (pc = "raised" /\ rgb.kind = "ValueError")

\* The number the two hex digits of s from position i stand for
ByteAt(s, i) == 16 * HexVal(s[i]) + HexVal(s[i + 1])

\* C14: hex_to_rgb returns a triple as it is; for 6 hex digits in any letter
\* case, with or without one leading '#', it returns the three 2-digit
\* groups read in base 16, each in 0..255 ("#010203" gives (1, 2, 3)); and
\* hex_to_rgb of what it returned is what it returned.
C14_HexToRgbDecodes ==
    pc # "call_hex_to_rgb" =>
        /\ hex_code.kind = "tuple" => (pc = "returned" /\ rgb = hex_code)
        /\ (hex_code.kind = "str" /\ SixHexDigits(StripOneHash(hex_code.v))) =>
               LET s == StripOneHash(hex_code.v)
               IN  /\ pc = "returned"
                   /\ rgb = Tuple(<<ByteAt(s, 1), ByteAt(s, 3), ByteAt(s, 5)>>)
                   /\ \A i \in 1..3 : rgb.v[i] \in 0..255
        /\ hex_code = Str(<<"#", "0", "1", "0", "2", "0", "3">>) => rgb = Tuple(<<1, 2, 3>>)
        /\ hex_code = Str(<<"#", "1", "a", "F", "1", "a", "F">>) => rgb = Tuple(<<26, 241, 175>>)
        /\ hex_code = Str(<<"F", "a", "1", "1", "a", "F">>) => rgb = Tuple(<<250, 17, 175>>)
        /\ pc = "returned" => (rgb.kind = "tuple" /\ hex_to_rgb(rgb) = rgb)

\* C14 witness: "#010203" has been resolved to (1, 2, 3).
C14_Witness ==
    /\ pc = "returned"
    /\ hex_code = Str(<<"#", "0", "1", "0", "2", "0", "3">>)
    /\ rgb = Tuple(<<1, 2, 3>>)

\* Six digits of mixed case without a '#' have been resolved
C14_MixedCaseResolved ==
    /\ pc = "returned"
    /\ hex_code = Str(<<"F", "a", "1", "1", "a", "F">>)
    /\ rgb = Tuple(<<250, 17, 175>>)

\* ------------------------------------------------------------------------
\* Properties of the event projection
\* ------------------------------------------------------------------------
Parsed(row) == strptime(strip(row[1]))

Parses(row) == Parsed(row).kind # "ValueError"

\* The display string a parseable row stands for
Display(row) ==
    LET dt == Parsed(row).v
    IN  IF dt.hour = 0 /\ dt.minute = 0 THEN strip(row[2])
        ELSE TwoDigits(dt.hour) \o <<":">> \o TwoDigits(dt.minute)
                 \o <<" ", "-", " ">> \o strip(row[2])

RECURSIVE DisplaysOn(_, _)
\* The display strings of the parseable rows dated d, in source order
DisplaysOn(rows, d) ==
    IF rows = <<>> THEN <<>>
    ELSE (IF Parses(rows[1]) /\ Parsed(rows[1]).v.date = d
          THEN <<Display(rows[1])>> ELSE <<>>) \o DisplaysOn(Tail(rows), d)

RECURSIVE SumLens(_, _)
SumLens(f, S) ==
    IF S = {} THEN 0
    ELSE LET x == CHOOSE x \in S : TRUE IN Len(f[x]) + SumLens(f, S \ {x})

\* C6: a row whose timestamp does not parse is skipped without raising and
\* adds nothing to the mapping, and every parseable row before and after
\* it still appears in the mapping.
C6_BadRowsSkipped ==
    pc = "returned" =>
        /\ DOMAIN events = {Parsed(db_rows[i]).v.date :
                               i \in {j \in 1..Len(db_rows) : Parses(db_rows[j])}}
        /\ SumLens(events, DOMAIN events)
               = Cardinality({j \in 1..Len(db_rows) : Parses(db_rows[j])})
        /\ \A i \in 1..Len(db_rows) :
              Parses(db_rows[i]) =>
                  \E k \in 1..Len(events[Parsed(db_rows[i]).v.date]) :
                      events[Parsed(db_rows[i]).v.date][k] = Display(db_rows[i])

\* C6 witness: the row ("2025/03/10", "X") between two good rows of
\* 10 March 2025: both good rows are in the mapping, and nothing else.
C6_Witness ==
    /\ pc = "returned"
    /\ db_rows = <<<<StampMidnight, TitleBirthday>>, <<StampSlashes, TitleX>>,
                   <<StampMorning, TitleStandup>>>>
    /\ DOMAIN events = {<<2025, 3, 10>>}
    /\ Len(events[<<2025, 3, 10>>]) = 2

\* C7: for parseable rows, each date maps to the display strings of its
\* rows in source order, the bare trimmed title for a row at 00:00 and
\* "HH:MM - " followed by the trimmed title for any other.
C7_DisplayStringsInSourceOrder ==
    (pc = "returned" /\ \A i \in 1..Len(db_rows) : Parses(db_rows[i])) =>
        /\ DOMAIN events = {Parsed(db_rows[i]).v.date : i \in 1..Len(db_rows)}
        /\ \A d \in DOMAIN events : events[d] = DisplaysOn(db_rows, d)

\* C7 witness: ("2025-03-10 00:00", "Birthday"), ("2025-03-10 09:30",
\* " Standup ") gives {2025-03-10: ["Birthday", "09:30 - Standup"]}.
C7_Witness ==
    /\ pc = "returned"
    /\ db_rows = <<<<StampMidnight, TitleBirthday>>, <<StampMorning, TitleStandup>>>>
    /\ events = [d \in {<<2025, 3, 10>>} |-> <<ShortEvent, TimedEvent>>]

\* ------------------------------------------------------------------------
\* Properties of the text wrapper
\* ------------------------------------------------------------------------
RECURSIVE WordsOf(_)
\* The words of the lines, line after line
WordsOf(ls) == IF ls = <<>> THEN <<>> ELSE split(ls[1]) \o WordsOf(Tail(ls))

\* C10: the lines of wrap_text joined by single blanks are the
\* whitespace-normalized text (same words, same order, none lost, doubled
\* or split), and a text that is empty or all whitespace gives no line.
C10_WrapKeepsWords ==
    pc = "returned" =>
        /\ join(lines, <<" ">>) = join(split(text), <<" ">>)
        /\ WordsOf(lines) = split(text)
        /\ \A i \in 1..Len(lines) : lines[i] # <<>>
        /\ strip(text) = <<>> => lines = <<>>

\* C10 witness: a text with a leading blank and words that do not all fit
\* one line is wrapped into two or more lines.
C10_Witness ==
    /\ pc = "returned"
    /\ text # <<>> /\ Head(text) = " "
    /\ Len(split(text)) >= 3
    /\ Len(lines) >= 2

\* C11: every line wrap_text returns that holds two or more words measures
\* at most the budget; a line wider than the budget is one word of the text
\* that alone is wider than the budget.
C11_OnlySingleWordsOverflow ==
    pc = "returned" =>
        \A i \in 1..Len(lines) :
            LET words == split(lines[i])
                width == TextWidth(font, lines[i])
            IN  /\ Len(words) >= 2 => width <= max_pixel_width
                /\ width > max_pixel_width =>
                       /\ Len(words) = 1
                       /\ lines[i] = words[1]
                       /\ \E k \in 1..Len(split(text)) : split(text)[k] = lines[i]

\* C11 witness: one text gives a line of two words that fills the budget
\* exactly and, after it, a line of one word.
C11_Witness ==
    /\ pc = "returned"
    /\ Len(lines) >= 2
    /\ Len(split(lines[1])) = 2
    /\ TextWidth(font, lines[1]) = max_pixel_width
    /\ Len(split(lines[2])) = 1

\* C11 witness of the overflow: a word wider than the budget stands alone
\* on a line between two other lines.
C11_OverflowReached ==
    /\ pc = "returned"
    /\ Len(lines) = 3
    /\ TextWidth(font, lines[2]) > max_pixel_width
    /\ TextWidth(font, lines[1]) <= max_pixel_width

\* ------------------------------------------------------------------------
\* A render under margins that leave little or no room
\* ------------------------------------------------------------------------
\* BaseConfig with the bottom and right margins set so that the drawable
\* height is 480, 0 or -60 and the drawable width 920, 0 or -70
LayoutConfigs ==
    {[BaseConfig EXCEPT !.MARGIN_BOTTOM = mb, !.MARGIN_RIGHT = mr] :
        mb \in {450, 930, 990}, mr \in {500, 1420, 1490}}

InitLayout ==
    /\ pc = "new"
    /\ cfg \in LayoutConfigs
    /\ year = 0
    /\ month = 0
    /\ start_of_week = 0
    /\ today = <<>>
    /\ event_dict = <<>>
    /\ firstweekday = MONDAY
    /\ month_grid = <<>>
    /\ cell_height = 0
    /\ headers = <<>>
    /\ cells = <<>>
    /\ IdlePublish
    /\ calls = <<>>
    /\ IdleColor
    /\ IdleEvents
    /\ IdleWrap

\* draw_calendar for the months of one year, with either kind of Pillow
\* build and the output path writable or not
DrawLayout ==
    /\ pc = "constructed"
    /\ \E m \in 1..12, sow \in {SUNDAY, MONDAY} :
           \E evd \in {<<>>, [d \in {<<FirstYear + 1, m, 1>>} |-> <<ShortEvent>>]},
              strict \in BOOLEAN, writable \in BOOLEAN :
               draw_calendar(FirstYear + 1, m, evd, sow, <<FirstYear + 1, m, 15>>,
                             strict, writable)

NextLayout == Construct \/ DrawLayout

SpecLayout == InitLayout /\ [][NextLayout]_vars

DrawableWidth == cfg.IMG_WIDTH - cfg.MARGIN_LEFT - cfg.MARGIN_RIGHT

\* draw_calendar has run to its end or to an exception
DrawEnded == pc \in {"saved", "raised"} /\ month_grid # <<>>

\* C12: under margins that leave a drawable width or height of zero or
\* less, draw_calendar fails before it draws a cell and before it writes the
\* image file.
C12_InfeasibleLayoutFails ==
    (DrawEnded /\ (DrawableWidth <= 0 \/ DrawableHeight <= 0)) =>
        /\ pc = "raised"
        /\ error \notin {"none", "OSError"}
        /\ cells = <<>>
        /\ save_calls = 0
        /\ ~file_written

\* The render the code performs instead: all cells drawn with no height and
\* the file written
C12_EmptyAreaSaved ==
    /\ pc = "saved"
    /\ DrawableHeight = 0
    /\ file_written
    /\ Len(cells) = 7 * Len(month_grid)
    /\ \A i \in 1..Len(cells) : cells[i].cell_top = cells[i].cell_bottom

\* ------------------------------------------------------------------------
\* common.publish_calendar_image, called again and again on the one Config
\* ------------------------------------------------------------------------
MaxPublishes == 3   \* calls of publish_calendar_image in one run

\* start_weekday = calendar.SUNDAY if start_of_week == "sun" else calendar.MONDAY
start_weekday(sow) == IF sow = "sun" THEN SUNDAY ELSE MONDAY

\* What the events table may hold when it is read
PublishRows ==
    {<<>>,
     <<<<StampMidnight, TitleBirthday>>, <<StampMorning, TitleStandup>>>>,
     <<<<StampPadded, TitleStandup>>, <<StampSlashes, TitleX>>,
       <<StampMidnight, TitleBirthday>>>>}

\* Where the read of rows may fail
Faults(rows) ==
    {NoFault, [at |-> "connect", row |-> 0], [at |-> "execute", row |-> 0]}
    \cup {[at |-> a, row |-> k] : a \in {"row_date", "row_title"}, k \in 1..Len(rows)}

\* The year asked for: the year of the rows of the events table
PublishYear == 2025

\* datetime.today().date() at the time of a publish
PublishTodays == {<<PublishYear, 3, 10>>, <<PublishYear, 2, 28>>}

InitPublish ==
    /\ pc = "idle"
    /\ cfg = BaseConfig
    /\ year = 0
    /\ month = 0
    /\ start_of_week = 0
    /\ today = <<>>
    /\ event_dict = <<>>
    /\ firstweekday = MONDAY
    /\ month_grid = <<>>
    /\ cell_height = 0
    /\ headers = <<>>
    /\ cells = <<>>
    /\ IdlePublish
    /\ calls = <<>>
    /\ IdleColor
    /\ IdleEvents
    /\ IdleWrap

\* The caller calls publish_calendar_image(year, month, start_of_week,
\* update_wallpaper); line 31 turns start_of_week into a weekday number
Publish_Call ==
    /\ pc \in {"idle", "returned", "raised"}
    /\ publishes < MaxPublishes
    /\ publishes' = publishes + 1
    /\ \E m \in {2, 3}, sow \in {"sun", "mon"}, rows \in PublishRows :
           /\ year' = PublishYear
           /\ month' = m
           /\ start_of_week' = start_weekday(sow)
           /\ db_rows' = rows
           /\ db_fault' \in Faults(rows)
    /\ update_wallpaper' \in BOOLEAN
    /\ events' = <<>>
    /\ event_dict' = <<>>
    /\ today' = <<>>
    /\ month_grid' = <<>>
    /\ cell_height' = 0
    /\ headers' = <<>>
    /\ cells' = <<>>
    /\ save_calls' = 0
    /\ file_written' = FALSE
    /\ wallpaper_calls' = 0
    /\ error' = "none"
    /\ pc' = "new"
    /\ UNCHANGED <<cfg, firstweekday, hex_code, rgb, text, max_pixel_width, font, lines, calls>>

\* events = app.read_events_db(app.cfg.EVENTS_DB_FILE)
Publish_ReadEvents ==
    /\ pc = "constructed"
    /\ events' = read_events_db_try(db_rows, db_fault).events
    /\ error' = except_Exception(read_events_db_try(db_rows, db_fault).exc)
    /\ pc' = IF error' = "none" THEN "events_read" ELSE "raised"
    /\ UNCHANGED <<hex_code, rgb, db_rows, text, max_pixel_width, font, lines, cfg,
                   year, month, start_of_week, today, event_dict, firstweekday,
                   month_grid, cell_height, headers, cells, update_wallpaper,
                   publishes, db_fault, save_calls, file_written, wallpaper_calls, calls>>

\* app.draw_calendar(year, month, events, start_weekday)
Publish_Draw ==
    /\ pc = "events_read"
    /\ \E tdy \in PublishTodays, writable \in BOOLEAN :
           draw_calendar(year, month, events, start_of_week, tdy, TRUE, writable)

\* if update_wallpaper: set_wallpaper(app.cfg.WALLPAPER_FILE)
Publish_SetWallpaper ==
    /\ pc = "saved"
    /\ update_wallpaper
    /\ wallpaper_calls' = wallpaper_calls + 1
    /\ pc' = "returned"
    /\ UNCHANGED <<hex_code, rgb, db_rows, events, text, max_pixel_width, font, lines,
                   cfg, year, month, start_of_week, today, event_dict, firstweekday,
                   month_grid, cell_height, headers, cells, update_wallpaper,
                   publishes, db_fault, save_calls, file_written, error, calls>>

\* else: the image is left where it was saved
Publish_Return ==
    /\ pc = "saved"
    /\ ~update_wallpaper
    /\ pc' = "returned"
    /\ UNCHANGED <<hex_code, rgb, db_rows, events, text, max_pixel_width, font, lines,
                   cfg, year, month, start_of_week, today, event_dict, firstweekday,
                   month_grid, cell_height, headers, cells, update_wallpaper,
                   publishes, db_fault, save_calls, file_written, wallpaper_calls,
                   error, calls>>

NextPublish ==
    \/ Publish_Call
    \/ Construct
    \/ Publish_ReadEvents
    \/ Publish_Draw
    \/ Publish_SetWallpaper
    \/ Publish_Return

SpecPublish == InitPublish /\ [][NextPublish]_vars

\* ------------------------------------------------------------------------
\* Properties of publish_calendar_image
\* ------------------------------------------------------------------------
\* The current call ended with an exception before draw_calendar began
RaisedBeforeDraw == pc = "raised" /\ month_grid = <<>>

\* calendar_image.save was called and did not write the file
SaveFailed == save_calls > 0 /\ ~file_written

\* C13: a failed write of the image file leaves draw_calendar and
\* publish_calendar_image as an exception, save is called once and not
\* again, and set_wallpaper is not called in that publish; set_wallpaper is
\* called only once the file has been written.
C13_SaveFailurePropagates ==
    /\ save_calls <= 1
    /\ SaveFailed => (pc = "raised" /\ error = "OSError" /\ wallpaper_calls = 0)
    /\ error = "OSError" => SaveFailed
    /\ wallpaper_calls > 0 => (file_written /\ update_wallpaper /\ pc = "returned")
    /\ wallpaper_calls <= 1

\* C13 witness: the wallpaper was asked for, every cell was drawn, the
\* write failed: the call ended with OSError and no set_wallpaper.
C13_Witness ==
    /\ pc = "raised"
    /\ error = "OSError"
    /\ update_wallpaper
    /\ cells # <<>> /\ Len(cells) = 7 * Len(month_grid)
    /\ save_calls = 1
    /\ wallpaper_calls = 0

\* C15: the render leaves every field of the Config it was given as it was.
C15_ConfigUnchanged == cfg = BaseConfig

\* The second call of publish_calendar_image finds the colours the first
\* one wrote
C15_LaterRenderSeesTriples ==
    /\ pc = "new"
    /\ publishes = 2
    /\ cfg.BACKGROUND_COLOR = Tuple(<<0, 0, 0>>)

\* BaseConfig with each colour as the triple its hex string stands for
ResolvedConfig ==
    [BaseConfig EXCEPT !.BACKGROUND_COLOR = Tuple(<<0, 0, 0>>),
                       !.GRID_COLOR = Tuple(<<20, 20, 20>>),
                       !.TEXT_COLOR = Tuple(<<255, 255, 255>>),
                       !.EVENT_COLOR = Tuple(<<100, 100, 100>>),
                       !.TODAY_CELL_BG_COLOR = Tuple(<<15, 15, 15>>),
                       !.TODAY_EVENT_COLOR = Tuple(<<224, 224, 224>>)]

\* C18: the first CalendarImageGen(Config) leaves every colour of Config an
\* RGB triple, and every later one, on any later publish, succeeds and
\* leaves Config as the first one left it.
C18_ConstructIdempotent ==
    /\ ~RaisedBeforeDraw
    /\ (publishes >= 1 /\ pc # "new") => cfg = ResolvedConfig
    /\ publishes >= 2 => cfg = ResolvedConfig
    /\ publishes = 0 => cfg = BaseConfig

\* C18 witness: the third construction on the same Config has returned.
C18_Witness ==
    /\ publishes = 3
    /\ pc = "constructed"
    /\ cfg = ResolvedConfig
    /\ \A i \in 1..Len(ColorFields) : cfg[ColorFields[i]].kind = "tuple"

\* The rows read_events_db has been through when its try block ends
RowsProcessed ==
    IF db_fault.at \in {"connect", "execute"} THEN <<>>
    ELSE IF db_fault.at = "none" THEN db_rows
    ELSE IF db_fault.at = "row_title" /\ ~Parses(db_rows[db_fault.row]) THEN db_rows
    ELSE SubSeq(db_rows, 1, db_fault.row - 1)

\* The list the mapping evs holds for date d, empty if it holds none
ListOn(evs, d) == IF d \in DOMAIN evs THEN evs[d] ELSE <<>>

\* The dates the timestamps of PublishRows name
EventDates == {<<2025, 3, 10>>, <<2025, 2, 28>>, <<2025, 2, 30>>}

\* C19: whatever fails while the database is opened, queried or a row is
\* processed, read_events_db returns the mapping of the rows before the
\* failure (empty if no row was processed) without raising, and
\* publish_calendar_image goes on to draw_calendar with that mapping.
C19_ReadNeverRaises ==
    /\ ~RaisedBeforeDraw
    /\ pc \in {"events_read", "saved", "returned", "raised"} =>
           /\ DOMAIN events \subseteq EventDates
           /\ \A d \in EventDates : ListOn(events, d) = DisplaysOn(RowsProcessed, d)
           /\ db_fault.at \in {"connect", "execute"} => events = <<>>
    /\ pc \in {"saved", "returned", "raised"} =>
           /\ event_dict = events
           /\ save_calls = 1
    /\ pc \in {"saved", "returned"} => file_written

\* C19 witness: the third row fails after two rows were read, one of them
\* unparseable: the calendar is saved with the one event read before.
C19_Witness ==
    /\ pc = "saved"
    /\ db_fault = [at |-> "row_date", row |-> 3]
    /\ events = [d \in {<<2025, 2, 28>>} |->
                    <<<<"0", "7", ":", "0", "5", " ", "-", " ", "S", "t", "a", "n", "d", "u", "p">>>>]
    /\ event_dict = events
    /\ file_written

\* A failing query leaves the mapping empty and the calendar is still saved
C19_EmptyAfterQueryFailure ==
    /\ pc = "saved"
    /\ db_fault.at = "execute"
    /\ db_rows # <<>>
    /\ event_dict = <<>>
    /\ file_written

\* ------------------------------------------------------------------------
\* Two draw_calendar calls running at the same time
\* ------------------------------------------------------------------------
Threads == {1, 2}

\* A call of draw_calendar(year, month, events, start_of_week) about to run
NewCall(y, m, sow) ==
    [pc |-> "start", year |-> y, month |-> m, start_of_week |-> sow,
     month_grid |-> <<>>, headers |-> <<>>, dates |-> <<>>]

InitInterleave ==
    /\ pc = "threads"
    /\ cfg = ResolvedConfig
    /\ year = 0
    /\ month = 0
    /\ start_of_week = 0
    /\ today = <<>>
    /\ event_dict = <<>>
    /\ firstweekday = MONDAY
    /\ month_grid = <<>>
    /\ cell_height = 0
    /\ headers = <<>>
    /\ cells = <<>>
    /\ IdlePublish
    /\ \E m1 \in 1..12, m2 \in 1..12, sow1 \in {SUNDAY, MONDAY} :
           calls = <<NewCall(FirstYear + 1, m1, sow1),
                     NewCall(FirstYear + 1, m2, IF sow1 = SUNDAY THEN MONDAY ELSE SUNDAY)>>
    /\ IdleColor
    /\ IdleEvents
    /\ IdleWrap

\* Line 71 in thread t: calendar.setfirstweekday(start_of_week) writes the
\* first weekday of the calendar module, which all threads share
Thread_setfirstweekday(t) ==
    /\ calls[t].pc = "start"
    /\ firstweekday' = setfirstweekday(calls[t].start_of_week)
    /\ calls' = [calls EXCEPT ![t].pc = "set"]
    /\ UNCHANGED <<pc, hex_code, rgb, db_rows, events, text, max_pixel_width, font,
                   lines, cfg, year, month, start_of_week, today, event_dict,
                   month_grid, cell_height, headers, cells, update_wallpaper,
                   publishes, db_fault, save_calls, file_written, wallpaper_calls, error>>

\* Line 104 in thread t: calendar.monthcalendar(year, month) reads the
\* module's first weekday as it is now
Thread_monthcalendar(t) ==
    /\ calls[t].pc = "set"
    /\ calls' = [calls EXCEPT ![t].pc = "grid",
                              ![t].month_grid =
                                  monthcalendar(firstweekday, calls[t].year, calls[t].month)]
    /\ UNCHANGED <<pc, hex_code, rgb, db_rows, events, text, max_pixel_width, font,
                   lines, cfg, year, month, start_of_week, today, event_dict,
                   firstweekday, month_grid, cell_height, headers, cells,
                   update_wallpaper, publishes, db_fault, save_calls, file_written,
                   wallpaper_calls, error>>

\* Lines 115-129 in thread t: the headers from the start_of_week argument,
\* the date of each cell from the grid
Thread_draw(t) ==
    /\ calls[t].pc = "grid"
    /\ LET c == calls[t]
           n == 7 * Len(c.month_grid)
       IN  calls' = [calls EXCEPT
                        ![t].pc = "done",
                        ![t].headers = draw_weekday_headers(c.start_of_week),
                        ![t].dates = [i \in 1..n |->
                                         cell_date_args(c.year, c.month, c.month_grid,
                                                        (i - 1) \div 7, (i - 1) % 7)]]
    /\ UNCHANGED <<pc, hex_code, rgb, db_rows, events, text, max_pixel_width, font,
                   lines, cfg, year, month, start_of_week, today, event_dict,
                   firstweekday, month_grid, cell_height, headers, cells,
                   update_wallpaper, publishes, db_fault, save_calls, file_written,
                   wallpaper_calls, error>>

NextInterleave ==
    \E t \in Threads :
        \/ Thread_setfirstweekday(t)
        \/ Thread_monthcalendar(t)
        \/ Thread_draw(t)

SpecInterleave == InitInterleave /\ [][NextInterleave]_vars

\* In the finished call c, every date of column i falls on the weekday of
\* the i-th header label
ColumnsUnderHeaders(c) ==
    \A i \in 1..Len(c.dates) :
        c.dates[i] # <<>> =>
            weekday(c.dates[i][1], c.dates[i][2], c.dates[i][3])
                = c.headers[((i - 1) % 7) + 1].day_index

\* C16: however two draw_calendar calls with different start_of_week are
\* interleaved, in each of them the dates of column i fall on the weekday of
\* the i-th header label that call draws.
C16_EachCallOwnWeekStart ==
    \A t \in DOMAIN calls : calls[t].pc = "done" => ColumnsUnderHeaders(calls[t])

\* The first call wrote Sunday, the second wrote Monday, and then the first
\* built its grid: Sunday headers over a grid whose weeks start on Monday
C16_GridUnderOtherWeekStart ==
    /\ calls # <<>>
    /\ calls[1].pc = "done"
    /\ calls[1].start_of_week = SUNDAY
    /\ calls[1].headers[1].day_index = SUNDAY
    /\ weekday(calls[1].dates[1][1], calls[1].dates[1][2], calls[1].dates[1][3]) = MONDAY

====
